---------------------------- MODULE Spec2Model ----------------------------
(***************************************************************************)
(* Model of honnef.co/go/tools/lint/lintutil (src/unnamed/part_000):       *)
(* parseIgnore, compileErrors, Lint and ProcessFlagSet.                    *)
(*                                                                         *)
(* Strings that the code only splits (the -ignore text) are sequences of   *)
(* symbols: the separators " ", ":" and "," and word chunks that contain   *)
(* no separator.  Strings that the code compares with < (file names and    *)
(* messages) are naturals ordered like the strings, 0 being "".            *)
(* A *packages.Package is a unit id; Pkg is the heap the ids point into.   *)
(***************************************************************************)
EXTENDS Integers, Sequences, FiniteSets, TLC

VARIABLES
    confs,          \* map[string]CheckerConfig handed to ProcessFlagSet
    fsIgnore,       \* flag -ignore
    fsFormat,       \* flag -f
    fsVersion,      \* flag -version
    fsShowIgnored,  \* flag -show-ignored
    loadErr,        \* whether packages.Load fails
    initial,        \* the packages packages.Load returns, in order
    Pkg,            \* unit id -> [IllTyped, Errors, Imports]
    pc,             \* position inside ProcessFlagSet
    ps,             \* the problems Lint returned
    lintErr,        \* the error Lint returned ("" is nil)
    ignores,        \* the rules Lint parsed from opt.Ignores
    loaderCalls,    \* number of packages.Load calls so far
    checkerCalls,   \* the checkers run so far and the packages each was given
    stderr,         \* lines written to os.Stderr
    stdout,         \* problems handed to the formatter
    idx,            \* loop index of ProcessFlagSet's range over ps
    total,
    errors,
    warnings,
    exitCode        \* -1 while running, else the process status

vars == <<confs, fsIgnore, fsFormat, fsVersion, fsShowIgnored, loadErr, initial,
          Pkg, pc, ps, lintErr, ignores, loaderCalls, checkerCalls, stderr, stdout, idx,
          total, errors, warnings, exitCode>>

inputs == <<confs, fsIgnore, fsFormat, fsVersion, fsShowIgnored, loadErr,
            initial, Pkg>>

---------------------------------------------------------------------------
(* Bounds of the model *)

NUnits == 3
MaxIgnoreLen == 4
StackLimit == 5
LineWidth == 4

Units == 1 .. NUnits

---------------------------------------------------------------------------
(* Generic helpers on sequences *)

RECURSIVE Concat(_)
Concat(ss) == IF ss = <<>> THEN <<>> ELSE Head(ss) \o Concat(Tail(ss))

Range(s) == {s[i] : i \in DOMAIN s}

\* all sequences without repetition over the set S
RECURSIVE Orderings(_)
Orderings(S) ==
    IF S = {} THEN {<<>>}
    ELSE UNION {{<<x>> \o t : t \in Orderings(S \ {x})} : x \in S}

---------------------------------------------------------------------------
(* strings.Fields and strings.Split on symbol sequences *)

\* strings.Split(s, sep): the pieces between occurrences of sep, empty ones kept
RECURSIVE SplitFrom(_, _, _)
SplitFrom(s, sep, cur) ==
    IF s = <<>> THEN <<cur>>
    ELSE IF Head(s) = sep THEN <<cur>> \o SplitFrom(Tail(s), sep, <<>>)
    ELSE SplitFrom(Tail(s), sep, Append(cur, Head(s)))

Split(s, sep) == SplitFrom(s, sep, <<>>)

\* strings.Fields(s): the maximal runs of non-space symbols
Fields(s) == SelectSeq(Split(s, " "), LAMBDA f : f # <<>>)

---------------------------------------------------------------------------
(* parseIgnore, lines 90-105 *)

\* &lint.GlobIgnore{Pattern: path, Checks: checks}
GlobIgnore(path, checks) == [Pattern |-> path, Checks |-> checks]

\* mutant of parseParts: a field is rejected only when it has no ":"
RECURSIVE parsePartsAtLeastOneColon(_, _)
parsePartsAtLeastOneColon(parts, out) ==
    IF parts = <<>> THEN [out |-> out, err |-> ""]
    ELSE LET p == Split(Head(parts), ":")
         IN  IF Len(p) < 2
             THEN [out |-> <<>>, err |-> "malformed ignore string"]
             ELSE parsePartsAtLeastOneColon(Tail(parts),
                             Append(out, GlobIgnore(p[1], Split(p[2], ","))))

\* the loop of parseIgnore over the fields; out is nil (<<>>) on error
RECURSIVE parseParts(_, _)
parseParts(parts, out) ==
    IF parts = <<>> THEN [out |-> out, err |-> ""]
    ELSE LET p == Split(Head(parts), ":")
         IN  IF Len(p) # 2
             THEN [out |-> <<>>, err |-> "malformed ignore string"]
             ELSE parseParts(Tail(parts),
                             Append(out, GlobIgnore(p[1], Split(p[2], ","))))

parseIgnore(s) ==
    IF Len(s) = 0 THEN [out |-> <<>>, err |-> ""]
    ELSE parseParts(Fields(s), <<>>)

---------------------------------------------------------------------------
(* token.Position and lint.Problem *)

\* a position of a file without line directives: the offset follows from
\* line and column
Position(f, l, c) ==
    [Filename |-> f, Offset |-> (l - 1) * LineWidth + (c - 1), Line |-> l, Column |-> c]

\* the zero value of token.Position
NoPosition == [Filename |-> 0, Offset |-> 0, Line |-> 0, Column |-> 0]

\* the zero value of lint.Problem ("var p lint.Problem", line 333)
ZeroProblem == [Position |-> NoPosition, Text |-> 0, Checker |-> "", Check |-> ""]

\* errors attached to a package: a types.Error, or a value of another type
TypesError(pos, msg) == [type |-> "types.Error", Pos |-> pos, Msg |-> msg]
OtherError == [type |-> "other", Pos |-> NoPosition, Msg |-> 0]

\* the import path of a unit, as one word chunk
PathNames == <<"p1", "p2", "p3", "p4", "p5">>

PkgPath(u) == <<PathNames[u]>>

---------------------------------------------------------------------------
(* compileErrors, lines 319-348 *)

\* lines 331-347: one entry per error of the package; an error that is not a
\* types.Error leaves p at its zero value, which is appended all the same
problemOfError(err) ==
    IF err.type = "types.Error"
    THEN [Position |-> err.Pos, Text |-> err.Msg, Checker |-> "compiler", Check |-> "compile"]
    ELSE ZeroProblem

stderrOfError(err) ==
    IF err.type = "types.Error" THEN <<>>
    ELSE <<"internal error: unhandled error type">>

explicitErrors(errs) ==
    [ps |-> [i \in DOMAIN errs |-> problemOfError(errs[i])],
     stderr |-> Concat([i \in DOMAIN errs |-> stderrOfError(errs[i])]),
     overflow |-> FALSE]

\* compileErrors(pkg) entered at recursion depth d: the set of its outcomes.
\* The recursion has no visited set; a Go stack is finite, so a recursion
\* that never ends is a fatal stack overflow, reached here at depth
\* StackLimit.
RECURSIVE compileErrorsAt(_, _)

\* lines 325-329 with the imports visited in the order imps
RECURSIVE compileImportsIn(_, _)
compileImportsIn(imps, d) ==
    IF imps = <<>> THEN {[ps |-> <<>>, stderr |-> <<>>, overflow |-> FALSE]}
    ELSE UNION {IF h.overflow THEN {h}
                ELSE {[ps |-> h.ps \o t.ps, stderr |-> h.stderr \o t.stderr,
                       overflow |-> t.overflow] : t \in compileImportsIn(Tail(imps), d)} :
                h \in compileErrorsAt(Head(imps), d)}

\* lines 325-329: pkg.Imports is a map from import path to package, and the
\* order in which range visits a map is unspecified
compileImports(imps, d) == UNION {compileImportsIn(o, d) : o \in Orderings(imps)}

compileErrorsAt(u, d) ==
    IF d > StackLimit THEN {[ps |-> <<>>, stderr |-> <<>>, overflow |-> TRUE]}
    ELSE IF ~Pkg[u].IllTyped THEN {[ps |-> <<>>, stderr |-> <<>>, overflow |-> FALSE]}
    ELSE IF Len(Pkg[u].Errors) = 0 THEN compileImports(Pkg[u].Imports, d + 1)
    ELSE {explicitErrors(Pkg[u].Errors)}

compileErrors(u) == compileErrorsAt(u, 1)

---------------------------------------------------------------------------
(* runner.lint, lines 357-365, and the Linter it drives *)

\* filepath.Match restricted to the patterns "*" and a literal
GlobMatch(pattern, name) == pattern = <<"*">> \/ pattern = name

\* GlobIgnore.Match: the unit pattern matches the owning unit and one of the
\* check patterns matches the check
IgnoreMatch(ig, u, check) ==
    /\ GlobMatch(ig.Pattern, PkgPath(u))
    /\ \E i \in DOMAIN ig.Checks : GlobMatch(ig.Checks[i], <<check>>)

Ignored(rules, u, check) == \E i \in DOMAIN rules : IgnoreMatch(rules[i], u, check)

\* Linter.Lint: the checker's findings in the packages it was given, minus
\* the ignored ones unless ReturnIgnored
LinterLint(l, pkgs) ==
    LET mine == SelectSeq(l.Checker.Findings, LAMBDA f : f.Unit \in Range(pkgs))
        kept == SelectSeq(mine, LAMBDA f : l.ReturnIgnored \/ ~Ignored(l.Ignores, f.Unit, f.Check))
    IN  [i \in DOMAIN kept |->
            [Position |-> kept[i].Position, Text |-> kept[i].Text,
             Checker |-> l.Checker.Name, Check |-> kept[i].Check]]

lint(runner, pkgs) ==
    LinterLint([Checker |-> runner.checker, Ignores |-> runner.ignores,
                ReturnIgnored |-> runner.returnIgnored], pkgs)

---------------------------------------------------------------------------
(* Lint, lines 233-317 *)

\* the less function handed to sort.Slice, lines 285-299
Less(a, b) ==
    LET pi == a.Position
        pj == b.Position
    IN  IF pi.Filename # pj.Filename THEN pi.Filename < pj.Filename
        ELSE IF pi.Line # pj.Line THEN pi.Line < pj.Line
        ELSE IF pi.Column # pj.Column THEN pi.Column < pj.Column
        ELSE a.Text < b.Text

InsertAt(l, i, x) == SubSeq(l, 1, i - 1) \o <<x>> \o SubSeq(l, i, Len(l))

\* the places where x may stand in the sorted l
SortedInserts(l, x) ==
    {InsertAt(l, i, x) : i \in {k \in 1 .. Len(l) + 1 :
        /\ \A j \in 1 .. k - 1 : ~Less(x, l[j])
        /\ \A j \in k .. Len(l) : ~Less(l[j], x)}}

\* every arrangement of s that is ordered by Less
RECURSIVE Arrangements(_)
Arrangements(s) ==
    IF s = <<>> THEN {<<>>}
    ELSE UNION {SortedInserts(l, Head(s)) : l \in Arrangements(Tail(s))}

\* insertion sort as the sort package runs it: the next entry moves left
\* past the entries it is less than, and stays behind its equals
RECURSIVE insertionSort(_, _)
insertionSort(done, rest) ==
    IF rest = <<>> THEN done
    ELSE LET x == Head(rest)
             stay == {k \in 1 .. Len(done) + 1 : \A j \in k .. Len(done) : Less(x, done[j])}
             at == CHOOSE k \in stay : \A m \in stay : k <= m
         IN  insertionSort(InsertAt(done, at, x), Tail(rest))

\* sort.Slice(problems, less): the set of its outcomes.  The sort is not
\* guaranteed to be stable.  Every release of the sort package sorts a slice
\* of at most 6 entries by insertion sort alone, which is stable; for longer
\* slices each arrangement ordered by Less is an outcome.
SortSlice(s) ==
    IF Len(s) <= 6 THEN {insertionSort(<<>>, s)} ELSE Arrangements(s)

\* lines 301-316: drop an entry whose Position and Text equal those of the
\* last entry kept
RECURSIVE uniqFrom(_, _)
uniqFrom(rest, prev) ==
    IF rest = <<>> THEN <<>>
    ELSE IF prev.Position = Head(rest).Position /\ prev.Text = Head(rest).Text
         THEN uniqFrom(Tail(rest), prev)
         ELSE <<Head(rest)>> \o uniqFrom(Tail(rest), Head(rest))

uniq(problems) ==
    IF Len(problems) < 2 THEN problems
    ELSE <<problems[1]>> \o uniqFrom(Tail(problems), problems[1])

\* mutant of partition: a package counts as ill-typed only when it carries
\* errors itself
RECURSIVE partitionByOwnErrors(_, _)
partitionByOwnErrors(pkgs, acc) ==
    IF pkgs = <<>> \/ acc.overflow THEN {acc}
    ELSE IF Len(Pkg[Head(pkgs)].Errors) > 0
         THEN UNION {partitionByOwnErrors(Tail(pkgs),
                            [acc EXCEPT !.problems = @ \o ce.ps,
                                        !.stderr = @ \o ce.stderr,
                                        !.overflow = ce.overflow]) :
                     ce \in compileErrors(Head(pkgs))}
         ELSE partitionByOwnErrors(Tail(pkgs), [acc EXCEPT !.workingPkgs = Append(@, Head(pkgs))])

\* lines 260-268: the loop over the loaded packages; one outcome for each
\* outcome of the calls of compileErrors
RECURSIVE partition(_, _)
partition(pkgs, acc) ==
    IF pkgs = <<>> \/ acc.overflow THEN {acc}
    ELSE IF Pkg[Head(pkgs)].IllTyped
         THEN UNION {partition(Tail(pkgs),
                            [acc EXCEPT !.problems = @ \o ce.ps,
                                        !.stderr = @ \o ce.stderr,
                                        !.overflow = ce.overflow]) :
                     ce \in compileErrors(Head(pkgs))}
         ELSE partition(Tail(pkgs), [acc EXCEPT !.workingPkgs = Append(@, Head(pkgs))])

\* lines 274-283: one runner per checker, in the order of cs
RECURSIVE runCheckers(_, _, _, _)
runCheckers(cs, opt, rules, workingPkgs) ==
    IF cs = <<>> THEN <<>>
    ELSE lint([checker |-> Head(cs), ignores |-> rules,
               returnIgnored |-> opt.ReturnIgnored], workingPkgs)
         \o runCheckers(Tail(cs), opt, rules, workingPkgs)

LintResult(problems, err, rules, loads, runs, log, crashed) ==
    [ps |-> problems, err |-> err, ignores |-> rules, loaderCalls |-> loads,
     checkerCalls |-> runs, stderr |-> log, crashed |-> crashed]

\* Lint(cs, paths, opt): the set of its outcomes
Lint(cs, opt) ==
    LET parsed == parseIgnore(opt.Ignores)
        rules == parsed.out
        runs(parts) == [i \in DOMAIN cs |-> [Name |-> cs[i].Name, Pkgs |-> parts.workingPkgs]]
        after(parts) ==
            IF parts.overflow THEN {LintResult(<<>>, "", rules, 1, <<>>, parts.stderr, TRUE)}
            ELSE IF Len(parts.workingPkgs) = 0
                 THEN {LintResult(parts.problems, "", rules, 1, <<>>, parts.stderr, FALSE)}
            ELSE {LintResult(uniq(sorted), "", rules, 1, runs(parts), parts.stderr, FALSE) :
                    sorted \in SortSlice(parts.problems
                                         \o runCheckers(cs, opt, parsed.out, parts.workingPkgs))}
    IN  IF parsed.err # "" THEN {LintResult(<<>>, parsed.err, <<>>, 0, <<>>, <<>>, FALSE)}
        ELSE IF loadErr THEN {LintResult(<<>>, "load error", rules, 1, <<>>, <<>>, FALSE)}
        ELSE UNION {after(parts) :
                parts \in partition(initial, [problems |-> <<>>, workingPkgs |-> <<>>,
                                              stderr |-> <<>>, overflow |-> FALSE])}

---------------------------------------------------------------------------
(* ProcessFlagSet, lines 158-223 *)

\* lines 172-175: cs is built by ranging over the map confs, whose iteration
\* order is unspecified
CheckerLists ==
    {[i \in DOMAIN o |-> confs[o[i]].Checker] : o \in Orderings(DOMAIN confs)}

\* lines 176-182
Options == [Ignores |-> fsIgnore, ReturnIgnored |-> fsShowIgnored]

\* mutant of CountsAsError: "ok && conf.ExitNonZero"
CountsAsErrorOnlyRegistered(p) == p.Checker \in DOMAIN confs /\ confs[p.Checker].ExitNonZero

\* lines 209-210: "!ok || conf.ExitNonZero"
CountsAsError(p) == p.Checker \notin DOMAIN confs \/ confs[p.Checker].ExitNonZero

\* the cases of the switch at lines 189-195
KnownFormats == {"text", "stylish", "json"}

\* lines 167-170
PrintVersion ==
    /\ pc = "start"
    /\ fsVersion
    /\ pc' = "exit"
    /\ exitCode' = 0
    /\ UNCHANGED <<inputs, ps, lintErr, ignores, loaderCalls, checkerCalls, stderr, stdout,
                   idx, total, errors, warnings>>

\* lines 172-186: the call of Lint and the exit on its error.  A stack
\* overflow inside Lint is fatal to the process (status 2 of the Go runtime).
CallLint ==
    /\ pc = "start"
    /\ ~fsVersion
    /\ \E cs \in CheckerLists : \E r \in Lint(cs, Options) :
        /\ ps' = r.ps
        /\ lintErr' = r.err
        /\ ignores' = r.ignores
        /\ loaderCalls' = loaderCalls + r.loaderCalls
        /\ checkerCalls' = checkerCalls \o r.checkerCalls
        /\ stderr' = stderr \o r.stderr \o (IF r.err # "" THEN <<r.err>> ELSE <<>>)
        /\ pc' = IF r.crashed THEN "crashed" ELSE IF r.err # "" THEN "exit" ELSE "linted"
        /\ exitCode' = IF r.crashed THEN 2 ELSE IF r.err # "" THEN 1 ELSE exitCode
    /\ UNCHANGED <<inputs, stdout, idx, total, errors, warnings>>

\* lines 188-207: the formatter is chosen after Lint has returned
SelectFormatter ==
    /\ pc = "linted"
    /\ IF fsFormat \in KnownFormats
       THEN /\ pc' = "format"
            /\ total' = Len(ps)
            /\ UNCHANGED <<stderr, exitCode>>
       ELSE /\ pc' = "exit"
            /\ stderr' = Append(stderr, "unsupported output format")
            /\ exitCode' = 2
            /\ UNCHANGED total
    /\ UNCHANGED <<inputs, ps, lintErr, ignores, loaderCalls, checkerCalls, stdout, idx,
                   errors, warnings>>

\* lines 208-216: one iteration of the loop over ps
FormatProblem ==
    /\ pc = "format"
    /\ idx <= Len(ps)
    /\ IF CountsAsError(ps[idx])
       THEN errors' = errors + 1 /\ UNCHANGED warnings
       ELSE warnings' = warnings + 1 /\ UNCHANGED errors
    /\ stdout' = Append(stdout, ps[idx])
    /\ idx' = idx + 1
    /\ UNCHANGED <<inputs, pc, ps, lintErr, ignores, loaderCalls, checkerCalls, stderr,
                   total, exitCode>>

\* lines 217-223
Finish ==
    /\ pc = "format"
    /\ idx > Len(ps)
    /\ pc' = IF errors > 0 THEN "exit" ELSE "returned"
    /\ exitCode' = IF errors > 0 THEN 1 ELSE 0
    /\ UNCHANGED <<inputs, ps, lintErr, ignores, loaderCalls, checkerCalls, stderr, stdout,
                   idx, total, errors, warnings>>

Next == PrintVersion \/ CallLint \/ SelectFormatter \/ FormatProblem \/ Finish

---------------------------------------------------------------------------
(* The inputs of a run *)

\* the state of ProcessFlagSet on entry
Entry ==
    /\ pc = "start"
    /\ ps = <<>>
    /\ lintErr = ""
    /\ ignores = <<>>
    /\ loaderCalls = 0
    /\ checkerCalls = <<>>
    /\ stderr = <<>>
    /\ stdout = <<>>
    /\ idx = 1
    /\ total = 0
    /\ errors = 0
    /\ warnings = 0
    /\ exitCode = -1

RECURSIVE Ascending(_)
Ascending(S) ==
    IF S = {} THEN <<>>
    ELSE LET m == CHOOSE x \in S : \A y \in S : x <= y
         IN  <<m>> \o Ascending(S \ {m})

SeqsUpTo(S, n) == UNION {[1 .. k -> S] : k \in 0 .. n}

\* what packages.Load marks: a unit is ill-typed when it has errors or
\* imports an ill-typed unit
RECURSIVE loadIllTyped(_, _, _)
loadIllTyped(errs, imps, u) ==
    \/ Len(errs[u]) > 0
    \/ \E v \in imps[u] : loadIllTyped(errs, imps, v)

LoadedHeap(errs, imps) ==
    [u \in DOMAIN errs |-> [IllTyped |-> loadIllTyped(errs, imps, u),
                      Errors |-> errs[u], Imports |-> imps[u]]]

NoErrors == [u \in Units |-> <<>>]
NoImports == [u \in Units |-> {}]

Finding(u, pos, text, check) == [Unit |-> u, Position |-> pos, Text |-> text, Check |-> check]

Checker(name, findings) == [Name |-> name, Findings |-> findings]

CheckerConfig(checker, exitNonZero) == [Checker |-> checker, ExitNonZero |-> exitNonZero]

RunInputs(c, ig, f, v, si, le, init, heap) ==
    [confs |-> c, fsIgnore |-> ig, fsFormat |-> f, fsVersion |-> v,
     fsShowIgnored |-> si, loadErr |-> le, initial |-> init, Pkg |-> heap]

Given(in) ==
    /\ confs = in.confs
    /\ fsIgnore = in.fsIgnore
    /\ fsFormat = in.fsFormat
    /\ fsVersion = in.fsVersion
    /\ fsShowIgnored = in.fsShowIgnored
    /\ loadErr = in.loadErr
    /\ initial = in.initial
    /\ Pkg = in.Pkg

\* every combination of the flags, over one well-typed package and one checker
InputsFlags ==
    {RunInputs("c1" :> CheckerConfig(Checker("c1", <<Finding(1, Position(1, 1, 1), 1, "SA1")>>), x),
               ig, f, v, si, le, <<1>>, LoadedHeap(NoErrors, NoImports)) :
        x \in BOOLEAN, ig \in {<<>>, <<"bad">>, <<"p1", ":", "SA1">>},
        f \in KnownFormats \cup {"xml"}, v \in BOOLEAN, si \in BOOLEAN, le \in BOOLEAN}

\* the text "*:compile" of the flag -ignore
IgnoreCompile == <<"*", ":", "compile">>

\* compile errors: two type errors at different places, and an error that is
\* not a types.Error (a syntax error, say)
TypeErrorA == TypesError(Position(2, 1, 1), 1)
TypeErrorB == TypesError(Position(1, 2, 1), 1)
ErrorValues == {TypeErrorA, TypeErrorB, OtherError}

\* positions and messages that differ from <<1, 1, 1, 1>> in at most one place
FindingKeys ==
    {k \in {1, 2} \X {1, 2} \X {1, 2} \X {1, 2} :
        Cardinality({i \in 1 .. 4 : k[i] = 2}) <= 1}

FindingLists(u, check) ==
    {<<>>} \cup {<<Finding(u, Position(k[1], k[2], k[3]), k[4], check)>> : k \in FindingKeys}

\* -- the aggregation of compile errors and of the findings of two checkers:
\* unit 3 may carry errors, units 1 and 2 may import it
AggHeaps ==
    {LoadedHeap([u \in Units |-> IF u = 3 THEN e ELSE <<>>],
                [u \in Units |-> IF u = 1 THEN i1 ELSE IF u = 2 THEN i2 ELSE {}]) :
        e \in {<<>>, <<TypeErrorA>>, <<TypeErrorA, TypeErrorB>>, <<OtherError, TypeErrorB>>},
        i1 \in SUBSET {2, 3},
        i2 \in {{}, {3}}}

AggRoots == UNION {Orderings(S) : S \in {T \in SUBSET {1, 2, 3} : Cardinality(T) \in {1, 2}}}

InputsAgg ==
    {RunInputs(("c1" :> CheckerConfig(Checker("c1", f1), TRUE)) @@
               ("c2" :> CheckerConfig(Checker("c2", f2), FALSE)),
               ig, "text", FALSE, FALSE, FALSE, r, h) :
        f1 \in FindingLists(1, "SA1"), f2 \in FindingLists(1, "S1"),
        ig \in {<<>>, IgnoreCompile}, r \in AggRoots, h \in AggHeaps}

\* -- the dependency graphs: every acyclic graph over Units (a unit imports
\* units of higher id), at most two errors in all
AcyclicImports ==
    {imps \in [Units -> SUBSET Units] : \A u \in Units : \A v \in imps[u] : v > u}

ErrorPlacements ==
    {errs \in [Units -> SeqsUpTo(ErrorValues, 2)] :
        Len(Concat([u \in Units |-> errs[u]])) <= 2}

GraphRoots == {Ascending(S) : S \in {T \in SUBSET Units : Cardinality(T) \in {1, 2}}}

\* one checker; its finding, if any, stands where TypeErrorB stands
InputsGraph ==
    {RunInputs("c1" :> CheckerConfig(Checker("c1",
                    IF c THEN <<Finding(r[1], TypeErrorB.Pos, TypeErrorB.Msg, "SA1")>>
                    ELSE <<>>), TRUE),
               <<>>, "text", FALSE, FALSE, FALSE, r, LoadedHeap(errs, imps)) :
        c \in BOOLEAN, r \in GraphRoots, errs \in ErrorPlacements,
        imps \in AcyclicImports}

\* -- the registrations: each of two keys is absent, or registers a checker
\* whose name is the key or another name, hard or soft, with or without a
\* finding; unit 2 may carry an error
Registrations(key, pos) ==
    {<<>>} \cup
    {<<CheckerConfig(Checker(n, f), x)>> :
        n \in {key, "other"}, x \in BOOLEAN,
        f \in {<<>>, <<Finding(1, pos, 1, "SA1")>>}}

ConfsOf(r1, r2) ==
    [k \in (IF r1 = <<>> THEN {} ELSE {"c1"}) \cup (IF r2 = <<>> THEN {} ELSE {"c2"}) |->
        IF k = "c1" THEN r1[1] ELSE r2[1]]

InputsPolicy ==
    {RunInputs(ConfsOf(r1, r2), <<>>, "text", FALSE, FALSE, FALSE, r,
               LoadedHeap([u \in Units |-> IF u = 2 THEN e ELSE <<>>], NoImports)) :
        r1 \in Registrations("c1", Position(1, 1, 1)),
        r2 \in Registrations("c2", Position(1, 1, 2)),
        r \in {<<1>>, <<1, 2>>}, e \in {<<>>, <<TypeErrorA>>, <<OtherError>>}}

\* -- the texts of -ignore: every text of at most MaxIgnoreLen symbols
IgnoreSymbols == {" ", ":", ",", "p1"}

InputsParse ==
    {RunInputs("c1" :> CheckerConfig(Checker("c1", <<Finding(1, Position(1, 1, 1), 1, "SA1")>>), TRUE),
               ig, "text", FALSE, FALSE, FALSE, <<1>>, LoadedHeap(NoErrors, NoImports)) :
        ig \in SeqsUpTo(IgnoreSymbols, MaxIgnoreLen)}

\* -- graphs whose producer does not keep them acyclic: each unit imports at
\* most one other unit; a unit without errors may be marked ill-typed
AnyHeaps ==
    {h \in [Units -> [IllTyped : BOOLEAN, Errors : {<<>>, <<TypeErrorA>>},
                      Imports : {{}} \cup {{v} : v \in Units}]] :
        \A u \in Units : (Len(h[u].Errors) > 0 => h[u].IllTyped) /\ u \notin h[u].Imports}

InputsCyclic ==
    {RunInputs("c1" :> CheckerConfig(Checker("c1", <<>>), TRUE),
               <<>>, "text", FALSE, FALSE, FALSE, <<u>>, h) :
        u \in Units, h \in AnyHeaps}

\* -- a chain 1 -> 2 -> ... -> NUnits of imports beside one more unit that
\* imports nothing; every unit carries at most one error
ChainUnits == 1 .. NUnits + 1

ChainImports == [u \in ChainUnits |-> IF u < NUnits THEN {u + 1} ELSE {}]

ChainRoots == {Ascending(S) : S \in {T \in SUBSET ChainUnits : Cardinality(T) \in {1, 2}}}

InputsChain ==
    {RunInputs("c1" :> CheckerConfig(Checker("c1",
                    IF c THEN <<Finding(r[1], TypeErrorB.Pos, TypeErrorB.Msg, "SA1")>>
                    ELSE <<>>), TRUE),
               <<>>, "text", FALSE, FALSE, FALSE, r, LoadedHeap(errs, ChainImports)) :
        c \in BOOLEAN, r \in ChainRoots,
        errs \in [ChainUnits -> {<<>>} \cup {<<e>> : e \in ErrorValues}]}

Init == Entry /\ \E in \in InputsFlags \cup InputsAgg : Given(in)

Spec == Init /\ [][Next]_vars

InitGraph == Entry /\ \E in \in InputsFlags \cup InputsGraph \cup InputsChain : Given(in)

SpecGraph == InitGraph /\ [][Next]_vars

InitPolicy == Entry /\ \E in \in InputsFlags \cup InputsPolicy : Given(in)

SpecPolicy == InitPolicy /\ [][Next]_vars

InitParse == Entry /\ \E in \in InputsFlags \cup InputsParse : Given(in)

SpecParse == InitParse /\ [][Next]_vars

InitCyclic == Entry /\ \E in \in InputsFlags \cup InputsCyclic : Given(in)

SpecCyclic == InitCyclic /\ [][Next]_vars

---------------------------------------------------------------------------
(* Properties *)

\* Lint has returned a nil error
LintSucceeded == pc \notin {"start", "crashed"} /\ ~fsVersion /\ lintErr = ""

\* ProcessFlagSet has run its loop over ps to the end
Reported == pc \in {"exit", "returned"} /\ LintSucceeded /\ fsFormat \in KnownFormats

Key(p) == <<p.Position.Filename, p.Position.Line, p.Position.Column, p.Text>>

\* a <= b for tuples of four, lexicographically
LexLeq(a, b) ==
    \/ a = b
    \/ \E i \in 1 .. 4 : a[i] < b[i] /\ \A j \in 1 .. i - 1 : a[j] = b[j]

\* C1: the list a successful Lint returns is ordered by (filename, line,
\* column, message).
C1_Ordered ==
    LintSucceeded => \A i, j \in DOMAIN ps : i < j => LexLeq(Key(ps[i]), Key(ps[j]))

\* C2: no two adjacent diagnostics of the list a successful Lint returns
\* have equal (filename, line, column, message).
C2_NoAdjacentDuplicates ==
    LintSucceeded => \A i \in 1 .. Len(ps) - 1 : Key(ps[i]) # Key(ps[i + 1])

HardOrUnregistered(p) == \A k \in DOMAIN confs : k = p.Checker => confs[k].ExitNonZero

\* C4: a diagnostic counts as an error iff its checker-id is absent from the
\* map or registered with ExitNonZero, as a warning otherwise; errors +
\* warnings = total; the exit status is 1 iff errors > 0, else the call
\* returns (status 0).
C4_Severity ==
    (pc = "format" \/ Reported) =>
        /\ errors = Cardinality({i \in 1 .. idx - 1 : HardOrUnregistered(ps[i])})
        /\ warnings = Cardinality({i \in 1 .. idx - 1 : ~HardOrUnregistered(ps[i])})
        /\ total = Len(ps)
        /\ Reported =>
            /\ idx = Len(ps) + 1
            /\ errors + warnings = total
            /\ exitCode = (IF \E i \in DOMAIN ps : HardOrUnregistered(ps[i]) THEN 1 ELSE 0)
            /\ pc = "returned" <=> errors = 0

C4_Witness == Reported /\ warnings > 0 /\ errors = 0 /\ exitCode = 0 /\ pc = "returned"

\* the fields of s: the maximal runs of symbols other than " "
TokenSpans(s) ==
    {t \in (1 .. Len(s)) \X (1 .. Len(s)) :
        /\ t[1] <= t[2]
        /\ \A k \in t[1] .. t[2] : s[k] # " "
        /\ t[1] = 1 \/ s[t[1] - 1] = " "
        /\ t[2] = Len(s) \/ s[t[2] + 1] = " "}

Colons(s, t) == Cardinality({k \in t[1] .. t[2] : s[k] = ":"})

RECURSIVE Join(_, _)
Join(ss, sep) ==
    IF ss = <<>> THEN <<>>
    ELSE IF Len(ss) = 1 THEN ss[1]
    ELSE ss[1] \o <<sep>> \o Join(Tail(ss), sep)

\* C7: a field of the -ignore text without exactly one ":" makes Lint return
\* the parse error, with no diagnostics and before the loader or a checker
\* runs; otherwise parsing yields one rule per field, in the order of the
\* fields, each rule being its field cut at the ":" and at the ",".
C7_ParseIgnore ==
    (pc # "start" /\ ~fsVersion) =>
        LET spans == TokenSpans(fsIgnore)
        IN  IF \E t \in spans : Colons(fsIgnore, t) # 1
            THEN /\ lintErr = "malformed ignore string"
                 /\ ps = <<>> /\ ignores = <<>>
                 /\ loaderCalls = 0 /\ checkerCalls = <<>> /\ stdout = <<>>
            ELSE /\ lintErr # "malformed ignore string"
                 /\ Len(ignores) = Cardinality(spans)
                 /\ \A t \in spans :
                      LET n == Cardinality({x \in spans : x[1] <= t[1]})
                      IN  /\ ":" \notin Range(ignores[n].Pattern)
                          /\ \A c \in DOMAIN ignores[n].Checks :
                                "," \notin Range(ignores[n].Checks[c])
                          /\ ignores[n].Pattern \o <<":">> \o Join(ignores[n].Checks, ",")
                                = SubSeq(fsIgnore, t[1], t[2])

C7_Witness ==
    /\ pc = "linted"
    /\ Len(ignores) = 2
    /\ ignores[1].Pattern = <<"p1">>
    /\ ignores[2].Pattern = <<>>

HasErrors(u) == Len(Pkg[u].Errors) > 0

DirectImports(u) == Pkg[u].Imports

\* the units u depends on, directly or transitively (acyclic graphs)
RECURSIVE Deps(_)
Deps(u) == UNION {{v} \cup Deps(v) : v \in DirectImports(u)}

\* v is u, or is reached from u through units that carry no errors themselves
RECURSIVE ClearPath(_, _)
ClearPath(u, v) ==
    \/ u = v
    \/ ~HasErrors(u) /\ \E w \in DirectImports(u) : ClearPath(w, v)

TypeErrorsOf(v) == {e \in Range(Pkg[v].Errors) : e.type = "types.Error"}

Shows(p, e) == p.Position = e.Pos /\ p.Text = e.Msg

IsCompileDiagnostic(p) == p.Checker = "compiler" /\ p.Check = "compile"

\* a registered checker has a finding at the place and with the message of e
CheckerReports(e) ==
    \E k \in DOMAIN confs : \E i \in DOMAIN confs[k].Checker.Findings :
        /\ confs[k].Checker.Findings[i].Position = e.Pos
        /\ confs[k].Checker.Findings[i].Text = e.Msg

HandedToCheckers == UNION {Range(checkerCalls[i].Pkgs) : i \in DOMAIN checkerCalls}

\* C3 as amended: a unit that depends on an ill-typed unit with errors is
\* never handed to a checker.  For a loaded package r and a unit v with
\* errors that is r or is reached from r through units without errors of
\* their own, the list of a successful Lint has, for each type error of v, a
\* diagnostic at its position with its message, which is the synthesized one
\* (compiler/compile) unless a checker reports the same position and message.
\* Every compiler diagnostic of the list shows a type error of such a unit.
C3_Propagation ==
    /\ \A u \in HandedToCheckers : \A v \in Deps(u) : ~(Pkg[v].IllTyped /\ HasErrors(v))
    /\ LintSucceeded =>
        /\ \A r \in Range(initial) : \A v \in DOMAIN Pkg :
             (ClearPath(r, v) /\ HasErrors(v)) =>
                \A e \in TypeErrorsOf(v) : \E i \in DOMAIN ps :
                    /\ Shows(ps[i], e)
                    /\ IsCompileDiagnostic(ps[i]) \/ CheckerReports(e)
        /\ \A i \in DOMAIN ps :
             ps[i].Checker = "compiler" =>
                /\ ps[i].Check = "compile"
                /\ \E r \in Range(initial) : \E v \in DOMAIN Pkg :
                     /\ ClearPath(r, v)
                     /\ \E e \in TypeErrorsOf(v) : Shows(ps[i], e)

\* a loaded package u without errors depends on a unit v with a type error,
\* not directly but through units without errors; checkers ran, on other
\* packages than u, and the list shows the error of v as a compile diagnostic
C3_Witness ==
    /\ LintSucceeded
    /\ checkerCalls # <<>>
    /\ \E u \in Range(initial) : \E v \in Deps(u) \ DirectImports(u) :
         /\ u \notin HandedToCheckers
         /\ ~HasErrors(u)
         /\ ClearPath(u, v)
         /\ \E e \in TypeErrorsOf(v) : \E i \in DOMAIN ps :
              IsCompileDiagnostic(ps[i]) /\ Shows(ps[i], e)

\* the units of the loaded graph
Loaded == Range(initial) \cup UNION {Deps(r) : r \in Range(initial)}

\* C3 as claimed, for units whose errors are all type errors that no checker
\* reports too: whenever a loaded unit u depends on an ill-typed unit v with
\* errors, u is not handed to checkers and the list of a successful Lint has a
\* compiler/compile diagnostic for an error of v.
C3_AsClaimed ==
    LintSucceeded =>
        \A u \in Loaded : \A v \in Deps(u) :
            (/\ Pkg[v].IllTyped /\ HasErrors(v)
             /\ \A e \in Range(Pkg[v].Errors) : e.type = "types.Error" /\ ~CheckerReports(e)) =>
                /\ u \notin HandedToCheckers
                /\ \E i \in DOMAIN ps : \E e \in TypeErrorsOf(v) :
                     IsCompileDiagnostic(ps[i]) /\ Shows(ps[i], e)

\* C5: the order of the checkers does not change what Lint returns: the list
\* that was returned, entry by entry with checker-id and check-id, is one
\* that Lint returns for every order of the registered checkers (the orders
\* have the same outcomes, whatever order the imports were visited in).
C5_OrderInsensitive ==
    LintSucceeded => \A cs \in CheckerLists : \E r \in Lint(cs, Options) : r.ps = ps

\* C6: in default mode no diagnostic synthesized from a compile error is in
\* the list when a rule matches its unit and the check-id "compile": a
\* compile diagnostic of the list shows an error of a unit no rule matches.
C6_CompileSuppressed ==
    (LintSucceeded /\ ~fsShowIgnored) =>
        \A i \in DOMAIN ps :
            IsCompileDiagnostic(ps[i]) =>
                \E v \in DOMAIN Pkg : /\ ~Ignored(ignores, v, "compile")
                                 /\ \E e \in TypeErrorsOf(v) : Shows(ps[i], e)

\* C8: with a malformed -ignore text or an unknown output format, the loader
\* and the checkers are never invoked and nothing is emitted; the process
\* exits with a failure status, which is 2 for an unknown output format.
C8_ConfigErrorsFirst ==
    (/\ ~fsVersion
     /\ \/ \E t \in TokenSpans(fsIgnore) : Colons(fsIgnore, t) # 1
        \/ fsFormat \notin KnownFormats) =>
        /\ loaderCalls = 0
        /\ checkerCalls = <<>>
        /\ stdout = <<>>
        /\ pc \notin {"format", "returned"}
        /\ pc = "exit" => exitCode \in {1, 2}
        /\ (pc = "exit" /\ fsFormat \notin KnownFormats) => exitCode = 2

\* C9: compile-error synthesis returns for every dependency graph, cycles
\* included: the call of Lint never ends in a stack overflow.
C9_Terminates == pc # "crashed"

\* C10: an error that is not a type error adds no entry to the list: every
\* entry of the list is a compile diagnostic or the finding of a checker.
C10_SkipsUnrecognized ==
    LintSucceeded =>
        \A i \in DOMAIN ps :
            \/ IsCompileDiagnostic(ps[i])
            \/ \E k \in DOMAIN confs : ps[i].Checker = confs[k].Checker.Name

============================================================================
